---- MODULE Spec2Model ----
(***************************************************************************)
(* The tool functions of the Dataplex and Dataproc agents                  *)
(* (dataplex_service_tools.py, catalog_service_tools.py,                   *)
(* cluster_controller_tools.py, common_tools.py) as a state machine.       *)
(*                                                                         *)
(* A caller invokes one tool function at a time.  A call chooses its       *)
(* arguments and the behaviour of its collaborators (client construction,  *)
(* request construction, the remote service); the action computes what the *)
(* function does with them: the mutation of the caller's mapping, the      *)
(* requests it sends and the value it returns or the exception it raises.  *)
(*                                                                         *)
(* Python values: a str is a sequence of tokens (so an f-string is a       *)
(* concatenation), a dict is a function from keys to values, a list is a   *)
(* sequence.                                                               *)
(***************************************************************************)
EXTENDS Integers, Sequences, FiniteSets, TLC

VARIABLES
    pc,          \* "idle": no call in progress; "lro": inside _handle_lro
    call,        \* the latest call: function, arguments, collaborators' behaviour
    details,     \* the mapping object passed to the latest call, as it is now
    sent,        \* the requests the latest call has sent to the remote service
    payload,     \* the mapping the latest call handed to the resource constructor
    result,      \* what the latest call returned or raised
    operation,   \* the long-running operation handle of the latest call
    polls,       \* polls of the operation made inside operation.exception()
    prev,        \* payload of the preceding call, when the latest call repeats it
    job_client   \* the module-level name job_client of dataproc common_tools.py

vars == <<pc, call, details, sent, payload, result, operation, polls, prev, job_client>>

\* Polls operation.exception() makes before the model stops counting.
MaxPolls == 2
\* Length of the longest remote listing.
MaxItems == 2

(***************************************************************************)
(* Exceptions                                                              *)
(***************************************************************************)
Exc(cls, code, message) == [cls |-> cls, code |-> code, message |-> message]

NoExc == Exc("None", 0, <<>>)

\* Every exception value.
Exceptions == [cls : STRING, code : Int, message : Seq(STRING)]

\* The classes of Python 3.7, where CancelledError derives from Exception.
Mro_py37(cls) ==
    CASE cls \in {"NotFound", "InvalidArgument", "FailedPrecondition", "Aborted",
                  "ServiceUnavailable"}
            -> {cls, "GoogleAPICallError", "GoogleAPIError", "Exception", "BaseException"}
      [] cls = "RetryError"
            -> {cls, "GoogleAPIError", "Exception", "BaseException"}
      [] OTHER
            -> {cls, "Exception", "BaseException"}

\* The classes an exception is an instance of.
Mro(cls) ==
    CASE cls \in {"NotFound", "InvalidArgument", "FailedPrecondition", "Aborted",
                  "ServiceUnavailable"}
            -> {cls, "GoogleAPICallError", "GoogleAPIError", "Exception", "BaseException"}
      [] cls = "RetryError"
            -> {cls, "GoogleAPIError", "Exception", "BaseException"}
      [] cls = "CancelledError"
            -> {cls, "BaseException"}
      [] OTHER
            -> {cls, "Exception", "BaseException"}

IsInstance(e, cls) == cls \in Mro(e.cls)

\* str(e): a GoogleAPICallError prints "<code> <message>".
Str(e) ==
    IF IsInstance(e, "GoogleAPICallError") THEN <<ToString(e.code)>> \o e.message
    ELSE e.message

\* str.lower(), token by token.
LowerWord(w) ==
    CASE w = "Terminal" -> "terminal"
      [] w = "TERMINAL" -> "terminal"
      [] w = "State"    -> "state"
      [] w = "STATE"    -> "state"
      [] w = "Invalid"  -> "invalid"
      [] w = "Job"      -> "job"
      [] OTHER          -> w

Lower(text) == [i \in DOMAIN text |-> LowerWord(text[i])]

\* phrase in text
Contains(text, phrase) ==
    \E i \in 1..(Len(text) - Len(phrase) + 1) :
        SubSeq(text, i, i + Len(phrase) - 1) = phrase

(***************************************************************************)
(* Values returned to the caller                                           *)
(***************************************************************************)
NoResult == [how |-> "none"]
ReturnedDict(d) == [how |-> "return", pytype |-> "dict", val |-> d]
ReturnedList(l) == [how |-> "return", pytype |-> "list", val |-> l]
Raised(e) == [how |-> "raise", pytype |-> "exception", val |-> e]

\* MessageToDict(message._pb, preserving_proto_field_name=True)
MessageToDict(message) == [name |-> message.name]

(***************************************************************************)
(* Resource names                                                          *)
(***************************************************************************)
common_location_path(project, location) ==
    <<"projects", project, "locations", location>>
lake_path(project, location, lake) ==
    common_location_path(project, location) \o <<"lakes", lake>>
zone_path(project, location, lake, zone) ==
    lake_path(project, location, lake) \o <<"zones", zone>>
asset_path(project, location, lake, zone, asset) ==
    zone_path(project, location, lake, zone) \o <<"assets", asset>>
task_path(project, location, lake, task) ==
    lake_path(project, location, lake) \o <<"tasks", task>>
job_path(project, location, lake, task, job) ==
    task_path(project, location, lake, task) \o <<"jobs", job>>

(***************************************************************************)
(* Arguments                                                               *)
(***************************************************************************)
\* Which identifying strings of a call are empty: none, one of them, or all.
EmptyChoices(params) == {{}} \cup {{p} : p \in params} \cup {params}

\* The identifying strings of a call: each parameter is "" or a name.
IdTuples(params) ==
    {[p \in params |-> IF p \in E THEN "" ELSE p] : E \in EmptyChoices(params)}

EmptyMap == [k \in {} |-> ""]
NoDetails == [has |-> FALSE, map |-> EmptyMap]
Some(m) == [has |-> TRUE, map |-> m]
NoPayload == [has |-> FALSE, map |-> EmptyMap]

\* The values the caller's mappings hold under the scalar keys.
ScalarVal(k) ==
    CASE k = "type"  -> <<"RAW">>
      [] k = "type_" -> <<"CURATED">>
      [] k = "name"  -> <<"projects", "other">>

Absent == {"absent"}
SubChoices == (SUBSET {"type", "type_"}) \cup {Absent}
SubMap(K) == [k \in K |-> ScalarVal(k)]

\* A caller's configuration mapping: scalar keys T, and the sub-mappings
\* resource_spec (keys R) and trigger_spec (keys S) unless Absent.
Config(T, R, S) ==
    [k \in T \cup (IF R = Absent THEN {} ELSE {"resource_spec"})
             \cup (IF S = Absent THEN {} ELSE {"trigger_spec"}) |->
        IF k = "resource_spec" THEN SubMap(R)
        ELSE IF k = "trigger_spec" THEN SubMap(S)
        ELSE ScalarVal(k)]

Configs ==
    {Config(T, R, S) : T \in SUBSET {"type", "type_", "name"},
                       R \in SubChoices, S \in {Absent}}
    \cup {Config(T, R, S) : T \in SUBSET {"type", "type_", "name"},
                            R \in {Absent}, S \in SubChoices}

\* update_mask of a call: the list of field paths, when the function takes one.
NoMask == [has |-> FALSE, paths |-> <<>>]
Mask(paths) == [has |-> TRUE, paths |-> paths]

\* The update_mask lists a caller passes.
UpdateMasks == {<<>>, <<"description">>, <<"resource_spec">>}

NoExtra ==
    [job_type |-> "", is_dict |-> FALSE, keys |-> {}, query_list |-> FALSE,
     update_mask |-> NoMask]

\* The caller makes a new call once it has let go of the preceding one.
Fresh == call.fn = "none"

\* Arguments of a call without a mapping.
PlainInputs(params) ==
    IF Fresh
    THEN {[ids |-> i, arg |-> NoDetails, repeat |-> FALSE, extra |-> NoExtra] :
            i \in IdTuples(params)}
    ELSE {}

\* The mappings passed along with the identifying strings i: every mapping
\* when they are all given, the empty mapping when one of them is "".
ConfigsFor(i) ==
    IF \E p \in DOMAIN i : i[p] = "" THEN {EmptyMap} ELSE Configs

\* Arguments of a call with a mapping: a new mapping, or the preceding call
\* over again with the very mapping object it was given.
ConfigInputs(fn, params) ==
    IF Fresh
    THEN UNION {{[ids |-> i, arg |-> Some(m), repeat |-> FALSE, extra |-> NoExtra] :
                    m \in ConfigsFor(i)} : i \in IdTuples(params)}
    ELSE IF call.fn = fn /\ details.has
    THEN {[ids |-> call.ids, arg |-> details, repeat |-> TRUE, extra |-> NoExtra]}
    ELSE {}

\* Arguments of an update call: a mapping and an update_mask; the call over
\* again passes the same update_mask.
UpdateInputs(fn, params) ==
    {[inp EXCEPT !.extra = [@ EXCEPT !.update_mask = Mask(m)]] :
        inp \in ConfigInputs(fn, params),
        m \in IF Fresh THEN UpdateMasks ELSE {call.extra.update_mask.paths}}

\* dict.setdefault('type_', dict.pop('type')): a value already under type_ stays.
PopType_keeping_type_(d) ==
    [k \in (DOMAIN d \ {"type"}) \cup {"type_"} |->
        IF k = "type_" /\ "type_" \notin DOMAIN d THEN d["type"] ELSE d[k]]

\* dict.pop('type') followed by dict['type_'] = <popped value>
PopType(d) ==
    [k \in (DOMAIN d \ {"type"}) \cup {"type_"} |->
        IF k = "type_" THEN d["type"] ELSE d[k]]

\* Resource(name=<name>, **details): the constructor's keyword arguments.
WithName(d, name) ==
    [k \in DOMAIN d \cup {"name"} |-> IF k = "name" THEN name ELSE d[k]]

(***************************************************************************)
(* Collaborators                                                           *)
(***************************************************************************)
Env(stage, exc) == [stage |-> stage, exc |-> exc, items |-> <<>>, done |-> FALSE, failed |-> FALSE]
NoEnv == Env("none", NoExc)

ClientFailure == Exc("DefaultCredentialsError", 0, <<"no", "credentials">>)
BuildFailure == Exc("ValueError", 0, <<"Unknown", "field">>)
MultipleValues == Exc("TypeError", 0, <<"multiple", "values", "for", "name">>)
PollingTimeout == Exc("TimeoutError", 0, <<"Operation", "did", "not", "complete">>)
OperationError == Exc("GoogleAPICallError", 500, <<"operation", "failed">>)

\* Errors of the remote call.
CoreErrors ==
    { Exc("NotFound", 404, <<"resource", "not", "found">>),
      Exc("InvalidArgument", 400, <<"bad", "field">>),
      Exc("ServiceUnavailable", 503, <<"try", "later">>),
      Exc("RuntimeError", 0, <<"transport", "closed">>) }

Req(method, target, body) ==
    [method |-> method, target |-> target, body |-> body, update_mask |-> NoMask]

\* The request of an update call: update_mask=FieldMask(paths=update_mask)
WithMask(request, update_mask) == [request EXCEPT !.update_mask = update_mask]

(***************************************************************************)
(* The shape shared by the tool functions: a try body that constructs a    *)
(* client, builds a request and calls the remote service, and a ladder of  *)
(* except clauses.                                                         *)
(***************************************************************************)
NoOperation ==
    [started |-> FALSE, name |-> <<>>, description |-> <<>>, done |-> FALSE, failed |-> FALSE]

\* The call is over: it returned or raised res.
Finish(fn, inp, env, after, reqs, pl, res, op) ==
    /\ pc' = "idle"
    /\ call' = [fn |-> fn, ids |-> inp.ids, before |-> inp.arg, repeat |-> inp.repeat,
                extra |-> inp.extra, env |-> env]
    /\ details' = after
    /\ sent' = reqs
    /\ payload' = pl
    /\ result' = res
    /\ operation' = op
    /\ polls' = 0
    /\ prev' = IF inp.repeat THEN payload ELSE NoPayload
    /\ UNCHANGED job_client

Done(fn, inp, env, after, reqs, pl, res) ==
    Finish(fn, inp, env, after, reqs, pl, res, NoOperation)

\* The remote call returned an operation handle, which goes to _handle_lro.
Start(fn, inp, env, after, reqs, pl, description) ==
    /\ pc' = "lro"
    /\ call' = [fn |-> fn, ids |-> inp.ids, before |-> inp.arg, repeat |-> inp.repeat,
                extra |-> inp.extra, env |-> env]
    /\ details' = after
    /\ sent' = reqs
    /\ payload' = pl
    /\ result' = NoResult
    /\ operation' = [started |-> TRUE, name |-> <<"operations", "op1">>,
                     description |-> description, done |-> env.done, failed |-> env.failed]
    /\ polls' = 0
    /\ prev' = IF inp.repeat THEN payload ELSE NoPayload
    /\ UNCHANGED job_client

\* What the resource constructor does with the keyword arguments kw.
Built(env, kw) ==
    IF env.stage = "build" THEN [ok |-> FALSE, exc |-> env.exc, payload |-> NoPayload]
    ELSE [ok |-> TRUE, exc |-> NoExc, payload |-> Some(kw)]

\* A constructor call in which the mapping's own "name" takes the place of name=.
BuiltWithName_overridden(env, d, name) ==
    IF "name" \in DOMAIN d THEN Built(env, d)
    ELSE Built(env, WithName(d, name))

\* The constructor called with name= and a mapping that holds "name" as well.
BuiltWithName(env, d, name) ==
    IF "name" \in DOMAIN d THEN [ok |-> FALSE, exc |-> MultipleValues, payload |-> NoPayload]
    ELSE Built(env, WithName(d, name))

\* try body of a create or update function: client, (rename), constructor,
\* request, remote call, _handle_lro.  `after` is the caller's mapping once the
\* rename has run.
TryMutate(fn, inp, env, after, built, method, target, description, except) ==
    IF env.stage = "client"
    THEN Done(fn, inp, env, inp.arg, <<>>, NoPayload, except[env.exc])
    ELSE IF ~built.ok
    THEN Done(fn, inp, env, Some(after), <<>>, NoPayload, except[built.exc])
    ELSE IF env.stage = "remote"
    THEN Done(fn, inp, env, Some(after), <<WithMask(Req(method, target, built.payload), inp.extra.update_mask)>>,
              built.payload, except[env.exc])
    ELSE Start(fn, inp, env, Some(after), <<WithMask(Req(method, target, built.payload), inp.extra.update_mask)>>,
               built.payload, description)

\* try body of a delete function: client, request, remote call, _handle_lro.
TryDelete(fn, inp, env, method, target, description, except) ==
    IF env.stage = "client"
    THEN Done(fn, inp, env, NoDetails, <<>>, NoPayload, except[env.exc])
    ELSE IF env.stage = "remote"
    THEN Done(fn, inp, env, NoDetails, <<Req(method, target, NoPayload)>>, NoPayload,
              except[env.exc])
    ELSE Start(fn, inp, env, NoDetails, <<Req(method, target, NoPayload)>>, NoPayload,
               description)

\* try body of a get function: client, request, remote call, MessageToDict.
TryGet(fn, inp, env, method, target, except) ==
    IF env.stage = "client"
    THEN Done(fn, inp, env, NoDetails, <<>>, NoPayload, except[env.exc])
    ELSE IF env.stage = "remote"
    THEN Done(fn, inp, env, NoDetails, <<Req(method, target, NoPayload)>>, NoPayload,
              except[env.exc])
    ELSE Done(fn, inp, env, NoDetails, <<Req(method, target, NoPayload)>>, NoPayload,
              ReturnedDict(MessageToDict([name |-> target])))

\* for item in client.list_xs(request): append MessageToDict(item)
Converted(items) == [i \in DOMAIN items |-> MessageToDict(items[i])]

\* A list function that hands back what it collected, followed by the error.
TryList_keeping_collected(fn, inp, env, method, target, except) ==
    IF env.stage = "client"
    THEN Done(fn, inp, env, NoDetails, <<>>, NoPayload, except[env.exc])
    ELSE IF env.stage = "remote"
    THEN Done(fn, inp, env, NoDetails, <<Req(method, target, NoPayload)>>, NoPayload,
              except[env.exc])
    ELSE IF env.stage = "iter"
    THEN Done(fn, inp, env, NoDetails,
              <<Req(method, target, NoPayload), Req(method, target \o <<"page2">>, NoPayload)>>,
              NoPayload,
              IF except[env.exc].how # "return"
              THEN except[env.exc]
              ELSE IF except[env.exc].pytype = "list"
              THEN ReturnedList(Converted(env.items) \o except[env.exc].val)
              ELSE ReturnedList(Append(Converted(env.items), except[env.exc].val)))
    ELSE Done(fn, inp, env, NoDetails, <<Req(method, target, NoPayload)>>, NoPayload,
              ReturnedList(Converted(env.items)))

\* try body of a list function.  The first page comes with the call; in stage
\* "iter" the listing yields env.items and the fetch of the next page raises.
TryList(fn, inp, env, method, target, except) ==
    IF env.stage = "client"
    THEN Done(fn, inp, env, NoDetails, <<>>, NoPayload, except[env.exc])
    ELSE IF env.stage = "remote"
    THEN Done(fn, inp, env, NoDetails, <<Req(method, target, NoPayload)>>, NoPayload,
              except[env.exc])
    ELSE IF env.stage = "iter"
    THEN Done(fn, inp, env, NoDetails,
              <<Req(method, target, NoPayload), Req(method, target \o <<"page2">>, NoPayload)>>,
              NoPayload, except[env.exc])
    ELSE Done(fn, inp, env, NoDetails, <<Req(method, target, NoPayload)>>, NoPayload,
              ReturnedList(Converted(env.items)))

\* What the collaborators of a create or update call may do.
MutateEnvs ==
    {Env("client", ClientFailure), Env("build", BuildFailure)}
    \cup {Env("remote", e) : e \in CoreErrors}
    \cup {[Env("ok", NoExc) EXCEPT !.done = d, !.failed = f] :
            d \in BOOLEAN, f \in {FALSE}}
    \cup {[Env("ok", NoExc) EXCEPT !.done = TRUE, !.failed = TRUE]}

DeleteEnvs == MutateEnvs \ {Env("build", BuildFailure)}

GetEnvs ==
    {Env("client", ClientFailure), Env("ok", NoExc)}
    \cup {Env("remote", e) : e \in CoreErrors}

ItemNames == {<<"a">>, <<"b">>}
Listings ==
    UNION {[1..n -> {[name |-> x] : x \in ItemNames}] : n \in 0..MaxItems}

ListEnvs ==
    {Env("client", ClientFailure)}
    \cup {Env("remote", e) : e \in CoreErrors}
    \cup {[Env("iter", e) EXCEPT !.items = l] :
            e \in CoreErrors, l \in Listings \ {<<>>}}
    \cup {[Env("ok", NoExc) EXCEPT !.items = l] : l \in Listings}

(***************************************************************************)
(* dataplex_service_tools.py                                               *)
(***************************************************************************)
\* A helper that reports the failed operation together with its handle.
_handle_lro_with_handle(op, operation_description) ==
    IF op.failed
    THEN ReturnedDict([error |-> <<"Error during ">> \o operation_description
                                 \o <<": ">> \o Str(OperationError),
                       status |-> <<"failed">>, operation_name |-> op.name])
    ELSE ReturnedDict([status |-> <<"pending">>, operation_name |-> op.name,
                       metadata |-> <<"metadata">>])

_handle_lro(op, operation_description) ==
    IF op.failed
    THEN ReturnedDict([error |-> <<"Error during ">> \o operation_description
                                 \o <<": ">> \o Str(OperationError)])
    ELSE ReturnedDict([status |-> <<"pending">>, operation_name |-> op.name,
                       metadata |-> <<"metadata">>])

\* --- Lake operations ---
create_dataplex_lake_except(ids, e) ==
    IF IsInstance(e, "InvalidArgument")
    THEN ReturnedDict([error |-> <<"Invalid argument: ">> \o e.message])
    ELSE IF IsInstance(e, "GoogleAPICallError")
    THEN ReturnedDict([error |-> <<"API Error creating lake: ">> \o e.message])
    ELSE IF IsInstance(e, "Exception")
    THEN ReturnedDict([error |-> <<"Unexpected error creating lake: ">> \o Str(e)])
    ELSE Raised(e)

create_dataplex_lake ==
    /\ pc = "idle"
    /\ \E inp \in ConfigInputs("create_dataplex_lake", {"project_id", "location", "lake_id"}),
          env \in MutateEnvs :
        LET ids == inp.ids
            lake_details == inp.arg.map
            parent == common_location_path(ids.project_id, ids.location)
            except == [e \in Exceptions |-> create_dataplex_lake_except(ids, e)]
        IN  TryMutate("create_dataplex_lake", inp, env, lake_details,
                      Built(env, lake_details), "create_lake",
                      parent \o <<"lakes", ids.lake_id>>,
                      <<"lake creation for ", ids.lake_id>>, except)

get_dataplex_lake_except(ids, e) ==
    IF IsInstance(e, "NotFound")
    THEN ReturnedDict([error |-> <<"Lake not found: ", ids.lake_id>>])
    ELSE IF IsInstance(e, "GoogleAPICallError")
    THEN ReturnedDict([error |-> <<"API Error getting lake: ">> \o e.message])
    ELSE IF IsInstance(e, "Exception")
    THEN ReturnedDict([error |-> <<"Unexpected error getting lake: ">> \o Str(e)])
    ELSE Raised(e)

get_dataplex_lake ==
    /\ pc = "idle"
    /\ \E inp \in PlainInputs({"project_id", "location", "lake_id"}), env \in GetEnvs :
        LET ids == inp.ids
            name == lake_path(ids.project_id, ids.location, ids.lake_id)
            except == [e \in Exceptions |-> get_dataplex_lake_except(ids, e)]
        IN  TryGet("get_dataplex_lake", inp, env, "get_lake", name, except)

list_dataplex_lakes_except(ids, e) ==
    IF IsInstance(e, "GoogleAPICallError")
    THEN ReturnedList(<<[error |-> <<"API Error listing lakes: ">> \o e.message]>>)
    ELSE IF IsInstance(e, "Exception")
    THEN ReturnedDict([error |-> <<"Unexpected error listing lakes: ">> \o Str(e)])
    ELSE Raised(e)

list_dataplex_lakes ==
    /\ pc = "idle"
    /\ \E inp \in PlainInputs({"project_id", "location"}), env \in ListEnvs :
        LET ids == inp.ids
            parent == common_location_path(ids.project_id, ids.location)
            except == [e \in Exceptions |-> list_dataplex_lakes_except(ids, e)]
        IN  TryList("list_dataplex_lakes", inp, env, "list_lakes", parent, except)

update_dataplex_lake_except(ids, e) ==
    IF IsInstance(e, "NotFound")
    THEN ReturnedDict([error |-> <<"Lake not found for update: ", ids.lake_id>>])
    ELSE IF IsInstance(e, "InvalidArgument")
    THEN ReturnedDict([error |-> <<"Invalid argument: ">> \o e.message])
    ELSE IF IsInstance(e, "GoogleAPICallError")
    THEN ReturnedDict([error |-> <<"API Error updating lake: ">> \o e.message])
    ELSE IF IsInstance(e, "Exception")
    THEN ReturnedDict([error |-> <<"Unexpected error updating lake: ">> \o Str(e)])
    ELSE Raised(e)

update_dataplex_lake ==
    /\ pc = "idle"
    /\ \E inp \in UpdateInputs("update_dataplex_lake", {"project_id", "location", "lake_id"}),
          env \in MutateEnvs :
        LET ids == inp.ids
            updated_lake_details == inp.arg.map
            lake_name == lake_path(ids.project_id, ids.location, ids.lake_id)
            except == [e \in Exceptions |-> update_dataplex_lake_except(ids, e)]
        IN  TryMutate("update_dataplex_lake", inp, env, updated_lake_details,
                      BuiltWithName(env, updated_lake_details, lake_name),
                      "update_lake", lake_name,
                      <<"lake update for ", ids.lake_id>>, except)

delete_dataplex_lake_except(ids, e) ==
    IF IsInstance(e, "NotFound")
    THEN ReturnedDict([error |-> <<"Lake not found for deletion: ", ids.lake_id>>])
    ELSE IF IsInstance(e, "GoogleAPICallError")
    THEN ReturnedDict([error |-> <<"API Error deleting lake: ">> \o e.message])
    ELSE IF IsInstance(e, "Exception")
    THEN ReturnedDict([error |-> <<"Unexpected error deleting lake: ">> \o Str(e)])
    ELSE Raised(e)

delete_dataplex_lake ==
    /\ pc = "idle"
    /\ \E inp \in PlainInputs({"project_id", "location", "lake_id"}), env \in DeleteEnvs :
        LET ids == inp.ids
            name == lake_path(ids.project_id, ids.location, ids.lake_id)
            except == [e \in Exceptions |-> delete_dataplex_lake_except(ids, e)]
        IN  TryDelete("delete_dataplex_lake", inp, env, "delete_lake", name,
                      <<"lake deletion for ", ids.lake_id>>, except)

\* A rename step that is not idempotent: it takes type_ away again when it
\* finds no type.
rename_type_toggling(d) ==
    IF "type" \in DOMAIN d THEN PopType(d)
    ELSE IF "type_" \in DOMAIN d THEN [k \in DOMAIN d \ {"type_"} |-> d[k]]
    ELSE d

\* A rename step that also descends into resource_spec.
rename_type_deep(d) ==
    LET top == IF "type" \in DOMAIN d THEN PopType(d) ELSE d
    IN  IF "resource_spec" \in DOMAIN top /\ "type" \in DOMAIN top["resource_spec"]
        THEN [top EXCEPT !["resource_spec"] = PopType(@)]
        ELSE top

\* A rename step that leaves the sub-mapping as it is.
rename_spec_type_skipped(d, spec) == d

\* if 'type' in details: details['type_'] = details.pop('type')
rename_type(d) ==
    IF "type" \in DOMAIN d THEN PopType(d) ELSE d

\* if spec in details and 'type' in details[spec]:
\*     details[spec]['type_'] = details[spec].pop('type')
rename_spec_type(d, spec) ==
    IF spec \in DOMAIN d /\ "type" \in DOMAIN d[spec]
    THEN [d EXCEPT ![spec] = PopType(@)]
    ELSE d

\* --- Zone operations ---
create_dataplex_zone_except(ids, e) ==
    IF IsInstance(e, "InvalidArgument")
    THEN ReturnedDict([error |-> <<"Invalid argument: ">> \o e.message])
    ELSE IF IsInstance(e, "GoogleAPICallError")
    THEN ReturnedDict([error |-> <<"API Error creating zone: ">> \o e.message])
    ELSE IF IsInstance(e, "Exception")
    THEN ReturnedDict([error |-> <<"Unexpected error creating zone: ">> \o Str(e)])
    ELSE Raised(e)

create_dataplex_zone ==
    /\ pc = "idle"
    /\ \E inp \in ConfigInputs("create_dataplex_zone", {"project_id", "location", "lake_id", "zone_id"}), env \in MutateEnvs :
        LET ids == inp.ids
            parent == lake_path(ids.project_id, ids.location, ids.lake_id)
            zone_details == rename_type(inp.arg.map)
            except == [e \in Exceptions |-> create_dataplex_zone_except(ids, e)]
        IN  TryMutate("create_dataplex_zone", inp, env, zone_details,
                      Built(env, zone_details), "create_zone",
                      parent \o <<"zones", ids.zone_id>>,
                      <<"zone creation for ", ids.zone_id, " in lake ", ids.lake_id>>, except)

get_dataplex_zone_except(ids, e) ==
    IF IsInstance(e, "NotFound")
    THEN ReturnedDict([error |-> <<"Zone not found: ", ids.zone_id>>])
    ELSE IF IsInstance(e, "GoogleAPICallError")
    THEN ReturnedDict([error |-> <<"API Error getting zone: ">> \o e.message])
    ELSE IF IsInstance(e, "Exception")
    THEN ReturnedDict([error |-> <<"Unexpected error getting zone: ">> \o Str(e)])
    ELSE Raised(e)

get_dataplex_zone ==
    /\ pc = "idle"
    /\ \E inp \in PlainInputs({"project_id", "location", "lake_id", "zone_id"}), env \in GetEnvs :
        LET ids == inp.ids
            name == zone_path(ids.project_id, ids.location, ids.lake_id, ids.zone_id)
            except == [e \in Exceptions |-> get_dataplex_zone_except(ids, e)]
        IN  TryGet("get_dataplex_zone", inp, env, "get_zone", name, except)

list_dataplex_zones_except(ids, e) ==
    IF IsInstance(e, "NotFound")
    THEN ReturnedList(<<[error |-> <<"Parent lake not found: ", ids.lake_id>>]>>)
    ELSE IF IsInstance(e, "GoogleAPICallError")
    THEN ReturnedList(<<[error |-> <<"API Error listing zones: ">> \o e.message]>>)
    ELSE IF IsInstance(e, "Exception")
    THEN ReturnedDict([error |-> <<"Unexpected error listing zones: ">> \o Str(e)])
    ELSE Raised(e)

list_dataplex_zones ==
    /\ pc = "idle"
    /\ \E inp \in PlainInputs({"project_id", "location", "lake_id"}), env \in ListEnvs :
        LET ids == inp.ids
            parent == lake_path(ids.project_id, ids.location, ids.lake_id)
            except == [e \in Exceptions |-> list_dataplex_zones_except(ids, e)]
        IN  TryList("list_dataplex_zones", inp, env, "list_zones", parent, except)

update_dataplex_zone_except(ids, e) ==
    IF IsInstance(e, "NotFound")
    THEN ReturnedDict([error |-> <<"Zone not found for update: ", ids.zone_id>>])
    ELSE IF IsInstance(e, "InvalidArgument")
    THEN ReturnedDict([error |-> <<"Invalid argument: ">> \o e.message])
    ELSE IF IsInstance(e, "GoogleAPICallError")
    THEN ReturnedDict([error |-> <<"API Error updating zone: ">> \o e.message])
    ELSE IF IsInstance(e, "Exception")
    THEN ReturnedDict([error |-> <<"Unexpected error updating zone: ">> \o Str(e)])
    ELSE Raised(e)

update_dataplex_zone ==
    /\ pc = "idle"
    /\ \E inp \in UpdateInputs("update_dataplex_zone", {"project_id", "location", "lake_id", "zone_id"}), env \in MutateEnvs :
        LET ids == inp.ids
            zone_name == zone_path(ids.project_id, ids.location, ids.lake_id, ids.zone_id)
            updated_zone_details == rename_type(inp.arg.map)
            except == [e \in Exceptions |-> update_dataplex_zone_except(ids, e)]
        IN  TryMutate("update_dataplex_zone", inp, env, updated_zone_details,
                      BuiltWithName(env, updated_zone_details, zone_name),
                      "update_zone", zone_name,
                      <<"zone update for ", ids.zone_id>>, except)

delete_dataplex_zone_except(ids, e) ==
    IF IsInstance(e, "NotFound")
    THEN ReturnedDict([error |-> <<"Zone not found for deletion: ", ids.zone_id>>])
    ELSE IF IsInstance(e, "GoogleAPICallError")
    THEN ReturnedDict([error |-> <<"API Error deleting zone: ">> \o e.message])
    ELSE IF IsInstance(e, "Exception")
    THEN ReturnedDict([error |-> <<"Unexpected error deleting zone: ">> \o Str(e)])
    ELSE Raised(e)

delete_dataplex_zone ==
    /\ pc = "idle"
    /\ \E inp \in PlainInputs({"project_id", "location", "lake_id", "zone_id"}), env \in DeleteEnvs :
        LET ids == inp.ids
            name == zone_path(ids.project_id, ids.location, ids.lake_id, ids.zone_id)
            except == [e \in Exceptions |-> delete_dataplex_zone_except(ids, e)]
        IN  TryDelete("delete_dataplex_zone", inp, env, "delete_zone", name,
                      <<"zone deletion for ", ids.zone_id>>, except)

\* --- Asset operations ---
create_dataplex_asset_except(ids, e) ==
    IF IsInstance(e, "InvalidArgument")
    THEN ReturnedDict([error |-> <<"Invalid argument: ">> \o e.message])
    ELSE IF IsInstance(e, "GoogleAPICallError")
    THEN ReturnedDict([error |-> <<"API Error creating asset: ">> \o e.message])
    ELSE IF IsInstance(e, "Exception")
    THEN ReturnedDict([error |-> <<"Unexpected error creating asset: ">> \o Str(e)])
    ELSE Raised(e)

create_dataplex_asset ==
    /\ pc = "idle"
    /\ \E inp \in ConfigInputs("create_dataplex_asset", {"project_id", "location", "lake_id", "zone_id", "asset_id"}), env \in MutateEnvs :
        LET ids == inp.ids
            parent == zone_path(ids.project_id, ids.location, ids.lake_id, ids.zone_id)
            asset_details == rename_spec_type(inp.arg.map, "resource_spec")
            except == [e \in Exceptions |-> create_dataplex_asset_except(ids, e)]
        IN  TryMutate("create_dataplex_asset", inp, env, asset_details,
                      Built(env, asset_details), "create_asset",
                      parent \o <<"assets", ids.asset_id>>,
                      <<"asset creation for ", ids.asset_id, " in zone ", ids.zone_id>>, except)

get_dataplex_asset_except(ids, e) ==
    IF IsInstance(e, "NotFound")
    THEN ReturnedDict([error |-> <<"Asset not found: ", ids.asset_id>>])
    ELSE IF IsInstance(e, "GoogleAPICallError")
    THEN ReturnedDict([error |-> <<"API Error getting asset: ">> \o e.message])
    ELSE IF IsInstance(e, "Exception")
    THEN ReturnedDict([error |-> <<"Unexpected error getting asset: ">> \o Str(e)])
    ELSE Raised(e)

get_dataplex_asset ==
    /\ pc = "idle"
    /\ \E inp \in PlainInputs({"project_id", "location", "lake_id", "zone_id", "asset_id"}), env \in GetEnvs :
        LET ids == inp.ids
            name == asset_path(ids.project_id, ids.location, ids.lake_id, ids.zone_id, ids.asset_id)
            except == [e \in Exceptions |-> get_dataplex_asset_except(ids, e)]
        IN  TryGet("get_dataplex_asset", inp, env, "get_asset", name, except)

list_dataplex_assets_except(ids, e) ==
    IF IsInstance(e, "NotFound")
    THEN ReturnedList(<<[error |-> <<"Parent zone not found: ", ids.zone_id>>]>>)
    ELSE IF IsInstance(e, "GoogleAPICallError")
    THEN ReturnedList(<<[error |-> <<"API Error listing assets: ">> \o e.message]>>)
    ELSE IF IsInstance(e, "Exception")
    THEN ReturnedList(<<[error |-> <<"Unexpected error listing assets: ">> \o Str(e)]>>)
    ELSE Raised(e)

list_dataplex_assets ==
    /\ pc = "idle"
    /\ \E inp \in PlainInputs({"project_id", "location", "lake_id", "zone_id"}), env \in ListEnvs :
        LET ids == inp.ids
            parent == zone_path(ids.project_id, ids.location, ids.lake_id, ids.zone_id)
            except == [e \in Exceptions |-> list_dataplex_assets_except(ids, e)]
        IN  TryList("list_dataplex_assets", inp, env, "list_assets", parent, except)

update_dataplex_asset_except(ids, e) ==
    IF IsInstance(e, "NotFound")
    THEN ReturnedDict([error |-> <<"Asset not found for update: ", ids.asset_id>>])
    ELSE IF IsInstance(e, "InvalidArgument")
    THEN ReturnedDict([error |-> <<"Invalid argument: ">> \o e.message])
    ELSE IF IsInstance(e, "GoogleAPICallError")
    THEN ReturnedDict([error |-> <<"API Error updating asset: ">> \o e.message])
    ELSE IF IsInstance(e, "Exception")
    THEN ReturnedDict([error |-> <<"Unexpected error updating asset: ">> \o Str(e)])
    ELSE Raised(e)

update_dataplex_asset ==
    /\ pc = "idle"
    /\ \E inp \in UpdateInputs("update_dataplex_asset", {"project_id", "location", "lake_id", "zone_id", "asset_id"}), env \in MutateEnvs :
        LET ids == inp.ids
            asset_name == asset_path(ids.project_id, ids.location, ids.lake_id, ids.zone_id, ids.asset_id)
            updated_asset_details == rename_spec_type(inp.arg.map, "resource_spec")
            except == [e \in Exceptions |-> update_dataplex_asset_except(ids, e)]
        IN  TryMutate("update_dataplex_asset", inp, env, updated_asset_details,
                      BuiltWithName(env, updated_asset_details, asset_name),
                      "update_asset", asset_name,
                      <<"asset update for ", ids.asset_id>>, except)

delete_dataplex_asset_except(ids, e) ==
    IF IsInstance(e, "NotFound")
    THEN ReturnedDict([error |-> <<"Asset not found for deletion: ", ids.asset_id>>])
    ELSE IF IsInstance(e, "GoogleAPICallError")
    THEN ReturnedDict([error |-> <<"API Error deleting asset: ">> \o e.message])
    ELSE IF IsInstance(e, "Exception")
    THEN ReturnedDict([error |-> <<"Unexpected error deleting asset: ">> \o Str(e)])
    ELSE Raised(e)

delete_dataplex_asset ==
    /\ pc = "idle"
    /\ \E inp \in PlainInputs({"project_id", "location", "lake_id", "zone_id", "asset_id"}), env \in DeleteEnvs :
        LET ids == inp.ids
            name == asset_path(ids.project_id, ids.location, ids.lake_id, ids.zone_id, ids.asset_id)
            except == [e \in Exceptions |-> delete_dataplex_asset_except(ids, e)]
        IN  TryDelete("delete_dataplex_asset", inp, env, "delete_asset", name,
                      <<"asset deletion for ", ids.asset_id>>, except)

\* --- Task operations ---
create_dataplex_task_except(ids, e) ==
    IF IsInstance(e, "InvalidArgument")
    THEN ReturnedDict([error |-> <<"Invalid argument: ">> \o e.message])
    ELSE IF IsInstance(e, "GoogleAPICallError")
    THEN ReturnedDict([error |-> <<"API Error creating task: ">> \o e.message])
    ELSE IF IsInstance(e, "Exception")
    THEN ReturnedDict([error |-> <<"Unexpected error creating task: ">> \o Str(e)])
    ELSE Raised(e)

create_dataplex_task ==
    /\ pc = "idle"
    /\ \E inp \in ConfigInputs("create_dataplex_task", {"project_id", "location", "lake_id", "task_id"}), env \in MutateEnvs :
        LET ids == inp.ids
            parent == lake_path(ids.project_id, ids.location, ids.lake_id)
            task_details == rename_spec_type(inp.arg.map, "trigger_spec")
            except == [e \in Exceptions |-> create_dataplex_task_except(ids, e)]
        IN  TryMutate("create_dataplex_task", inp, env, task_details,
                      Built(env, task_details), "create_task",
                      parent \o <<"tasks", ids.task_id>>,
                      <<"task creation for ", ids.task_id, " in lake ", ids.lake_id>>, except)

get_dataplex_task_except(ids, e) ==
    IF IsInstance(e, "NotFound")
    THEN ReturnedDict([error |-> <<"Task not found: ", ids.task_id>>])
    ELSE IF IsInstance(e, "GoogleAPICallError")
    THEN ReturnedDict([error |-> <<"API Error getting task: ">> \o e.message])
    ELSE IF IsInstance(e, "Exception")
    THEN ReturnedDict([error |-> <<"Unexpected error getting task: ">> \o Str(e)])
    ELSE Raised(e)

get_dataplex_task ==
    /\ pc = "idle"
    /\ \E inp \in PlainInputs({"project_id", "location", "lake_id", "task_id"}), env \in GetEnvs :
        LET ids == inp.ids
            name == task_path(ids.project_id, ids.location, ids.lake_id, ids.task_id)
            except == [e \in Exceptions |-> get_dataplex_task_except(ids, e)]
        IN  TryGet("get_dataplex_task", inp, env, "get_task", name, except)

list_dataplex_tasks_except(ids, e) ==
    IF IsInstance(e, "NotFound")
    THEN ReturnedList(<<[error |-> <<"Parent lake not found: ", ids.lake_id>>]>>)
    ELSE IF IsInstance(e, "GoogleAPICallError")
    THEN ReturnedList(<<[error |-> <<"API Error listing tasks: ">> \o e.message]>>)
    ELSE IF IsInstance(e, "Exception")
    THEN ReturnedList(<<[error |-> <<"Unexpected error listing tasks: ">> \o Str(e)]>>)
    ELSE Raised(e)

list_dataplex_tasks ==
    /\ pc = "idle"
    /\ \E inp \in PlainInputs({"project_id", "location", "lake_id"}), env \in ListEnvs :
        LET ids == inp.ids
            parent == lake_path(ids.project_id, ids.location, ids.lake_id)
            except == [e \in Exceptions |-> list_dataplex_tasks_except(ids, e)]
        IN  TryList("list_dataplex_tasks", inp, env, "list_tasks", parent, except)

update_dataplex_task_except(ids, e) ==
    IF IsInstance(e, "NotFound")
    THEN ReturnedDict([error |-> <<"Task not found for update: ", ids.task_id>>])
    ELSE IF IsInstance(e, "InvalidArgument")
    THEN ReturnedDict([error |-> <<"Invalid argument: ">> \o e.message])
    ELSE IF IsInstance(e, "GoogleAPICallError")
    THEN ReturnedDict([error |-> <<"API Error updating task: ">> \o e.message])
    ELSE IF IsInstance(e, "Exception")
    THEN ReturnedDict([error |-> <<"Unexpected error updating task: ">> \o Str(e)])
    ELSE Raised(e)

update_dataplex_task ==
    /\ pc = "idle"
    /\ \E inp \in UpdateInputs("update_dataplex_task", {"project_id", "location", "lake_id", "task_id"}), env \in MutateEnvs :
        LET ids == inp.ids
            task_name == task_path(ids.project_id, ids.location, ids.lake_id, ids.task_id)
            updated_task_details == rename_spec_type(inp.arg.map, "trigger_spec")
            except == [e \in Exceptions |-> update_dataplex_task_except(ids, e)]
        IN  TryMutate("update_dataplex_task", inp, env, updated_task_details,
                      BuiltWithName(env, updated_task_details, task_name),
                      "update_task", task_name,
                      <<"task update for ", ids.task_id>>, except)

delete_dataplex_task_except(ids, e) ==
    IF IsInstance(e, "NotFound")
    THEN ReturnedDict([error |-> <<"Task not found for deletion: ", ids.task_id>>])
    ELSE IF IsInstance(e, "GoogleAPICallError")
    THEN ReturnedDict([error |-> <<"API Error deleting task: ">> \o e.message])
    ELSE IF IsInstance(e, "Exception")
    THEN ReturnedDict([error |-> <<"Unexpected error deleting task: ">> \o Str(e)])
    ELSE Raised(e)

delete_dataplex_task ==
    /\ pc = "idle"
    /\ \E inp \in PlainInputs({"project_id", "location", "lake_id", "task_id"}), env \in DeleteEnvs :
        LET ids == inp.ids
            name == task_path(ids.project_id, ids.location, ids.lake_id, ids.task_id)
            except == [e \in Exceptions |-> delete_dataplex_task_except(ids, e)]
        IN  TryDelete("delete_dataplex_task", inp, env, "delete_task", name,
                      <<"task deletion for ", ids.task_id>>, except)

\* --- Task runs (jobs) ---
run_dataplex_task_except(ids, e) ==
    IF IsInstance(e, "NotFound")
    THEN ReturnedDict([error |-> <<"Task not found for run: ", ids.task_id>>])
    ELSE IF IsInstance(e, "GoogleAPICallError")
    THEN ReturnedDict([error |-> <<"API Error running task: ">> \o e.message])
    ELSE IF IsInstance(e, "Exception")
    THEN ReturnedDict([error |-> <<"Unexpected error running task: ">> \o Str(e)])
    ELSE Raised(e)

run_dataplex_task ==
    /\ pc = "idle"
    /\ \E inp \in PlainInputs({"project_id", "location", "lake_id", "task_id"}), env \in GetEnvs :
        LET ids == inp.ids
            name == task_path(ids.project_id, ids.location, ids.lake_id, ids.task_id)
            request == Req("run_task", name, NoPayload)
            job_dict == MessageToDict([name |-> name \o <<"jobs", "job1">>])
            except == [e \in Exceptions |-> run_dataplex_task_except(ids, e)]
        IN  IF env.stage = "client"
            THEN Done("run_dataplex_task", inp, env, NoDetails, <<>>, NoPayload, except[env.exc])
            ELSE IF env.stage = "remote"
            THEN Done("run_dataplex_task", inp, env, NoDetails, <<request>>, NoPayload,
                      except[env.exc])
            ELSE Done("run_dataplex_task", inp, env, NoDetails, <<request>>, NoPayload,
                      ReturnedDict([status |-> <<"started">>, job |-> job_dict]))

get_dataplex_job_except(ids, e) ==
    IF IsInstance(e, "NotFound")
    THEN ReturnedDict([error |-> <<"Job not found: ", ids.job_id>>])
    ELSE IF IsInstance(e, "GoogleAPICallError")
    THEN ReturnedDict([error |-> <<"API Error getting job: ">> \o e.message])
    ELSE IF IsInstance(e, "Exception")
    THEN ReturnedDict([error |-> <<"Unexpected error getting job: ">> \o Str(e)])
    ELSE Raised(e)

get_dataplex_job ==
    /\ pc = "idle"
    /\ \E inp \in PlainInputs({"project_id", "location", "lake_id", "task_id", "job_id"}),
          env \in GetEnvs :
        LET ids == inp.ids
            name == job_path(ids.project_id, ids.location, ids.lake_id, ids.task_id, ids.job_id)
            except == [e \in Exceptions |-> get_dataplex_job_except(ids, e)]
        IN  TryGet("get_dataplex_job", inp, env, "get_job", name, except)

list_dataplex_jobs_except(ids, e) ==
    IF IsInstance(e, "NotFound")
    THEN ReturnedList(<<[error |-> <<"Parent task not found: ", ids.task_id>>]>>)
    ELSE IF IsInstance(e, "GoogleAPICallError")
    THEN ReturnedList(<<[error |-> <<"API Error listing jobs: ">> \o e.message]>>)
    ELSE IF IsInstance(e, "Exception")
    THEN ReturnedList(<<[error |-> <<"Unexpected error listing jobs: ">> \o Str(e)]>>)
    ELSE Raised(e)

list_dataplex_jobs ==
    /\ pc = "idle"
    /\ \E inp \in PlainInputs({"project_id", "location", "lake_id", "task_id"}), env \in ListEnvs :
        LET ids == inp.ids
            parent == task_path(ids.project_id, ids.location, ids.lake_id, ids.task_id)
            except == [e \in Exceptions |-> list_dataplex_jobs_except(ids, e)]
        IN  TryList("list_dataplex_jobs", inp, env, "list_jobs", parent, except)

\* The same test without .lower()
already_terminal_case_sensitive(e) ==
    /\ e.code = 400
    /\ \/ Contains(Str(e), <<"invalid", "state">>)
       \/ Contains(Str(e), <<"terminal", "state">>)

\* The phrase test alone, without the test of the code.
already_terminal_any_code(e) ==
    \/ Contains(Lower(Str(e)), <<"invalid", "state">>)
    \/ Contains(Lower(Str(e)), <<"terminal", "state">>)

\* e.code == 400 and ("invalid state" in str(e).lower()
\*                    or "terminal state" in str(e).lower())
already_terminal(e) ==
    /\ e.code = 400
    /\ \/ Contains(Lower(Str(e)), <<"invalid", "state">>)
       \/ Contains(Lower(Str(e)), <<"terminal", "state">>)

cancel_dataplex_job_except(ids, e) ==
    IF IsInstance(e, "NotFound")
    THEN ReturnedDict([error |-> <<"Job not found for cancellation: ", ids.job_id>>])
    ELSE IF IsInstance(e, "GoogleAPICallError")
    THEN IF already_terminal(e)
         THEN ReturnedDict([error |-> <<"Job ", ids.job_id, " is already in a terminal state.">>])
         ELSE ReturnedDict([error |-> <<"API Error cancelling job: ">> \o e.message])
    ELSE IF IsInstance(e, "Exception")
    THEN ReturnedDict([error |-> <<"Unexpected error cancelling job: ">> \o Str(e)])
    ELSE Raised(e)

\* What the service answers when the job to cancel has already finished.
TerminalJobErrors ==
    { Exc("FailedPrecondition", 400, <<"Job", "in", "Terminal", "State">>),
      Exc("FailedPrecondition", 400, <<"Invalid", "state", "for", "cancel">>) }

\* Errors of the remote cancel call.
CancelErrors ==
    CoreErrors \cup TerminalJobErrors
    \cup { Exc("NotFound", 404, <<"job", "left", "terminal", "state">>),
           Exc("InvalidArgument", 400, <<"invalid", "state", "token">>),
           Exc("Aborted", 409, <<"invalid", "state">>) }

CancelEnvs ==
    {Env("client", ClientFailure), Env("ok", NoExc)}
    \cup {Env("remote", e) : e \in CancelErrors}

cancel_dataplex_job ==
    /\ pc = "idle"
    /\ \E inp \in PlainInputs({"project_id", "location", "lake_id", "task_id", "job_id"}),
          env \in CancelEnvs :
        LET ids == inp.ids
            name == job_path(ids.project_id, ids.location, ids.lake_id, ids.task_id, ids.job_id)
            request == Req("cancel_job", name, NoPayload)
            except == [e \in Exceptions |-> cancel_dataplex_job_except(ids, e)]
        IN  IF env.stage = "client"
            THEN Done("cancel_dataplex_job", inp, env, NoDetails, <<>>, NoPayload,
                      except[env.exc])
            ELSE IF env.stage = "remote"
            THEN Done("cancel_dataplex_job", inp, env, NoDetails, <<request>>, NoPayload,
                      except[env.exc])
            ELSE Done("cancel_dataplex_job", inp, env, NoDetails, <<request>>, NoPayload,
                      ReturnedDict([status |-> <<"cancellation_requested">>]))

(***************************************************************************)
(* catalog_service_tools.py                                                *)
(***************************************************************************)
\* all([project_id, location_id]): the query is left out of the test.
all_but_query(ids) == ids.project_id # "" /\ ids.location_id # ""

\* all([project_id, location_id, query]): an empty string is falsy.
all(ids) == ids.project_id # "" /\ ids.location_id # "" /\ ids.query # ""

\* A handler that reports the failure as the list functions do.
search_dataplex_catalog_except_reporting(ids, e) ==
    IF IsInstance(e, "Exception")
    THEN ReturnedList(<<[error |-> <<"An API error occurred: ">> \o Str(e)]>>)
    ELSE Raised(e)

search_dataplex_catalog_except(ids, e) ==
    IF IsInstance(e, "GoogleAPIError")
    THEN ReturnedList(<<>>)
    ELSE IF IsInstance(e, "Exception")
    THEN ReturnedList(<<>>)
    ELSE Raised(e)

\* entry_details of one search result
EntryDetails(r) ==
    [dataplex_entry_name |-> r.name, system |-> <<"DATAPLEX">>, type |-> <<"TABLE">>]

SearchEnvs ==
    ListEnvs \cup {Env("remote", Exc("RetryError", 0, <<"deadline", "exceeded">>))}

search_dataplex_catalog ==
    /\ pc = "idle"
    /\ \E inp \in PlainInputs({"project_id", "location_id", "query"}), env \in SearchEnvs :
        LET ids == inp.ids
            scope == <<"projects", ids.project_id, "locations", ids.location_id>>
            request == Req("search_resources", scope, NoPayload)
            except == [e \in Exceptions |-> search_dataplex_catalog_except(ids, e)]
            fn == "search_dataplex_catalog"
        IN  IF ~all(ids)
            THEN Done(fn, inp, env, NoDetails, <<>>, NoPayload,
                      Raised(Exc("ValueError", 0,
                                 <<"project_id, location_id, and query must be provided.">>)))
            ELSE IF env.stage = "client"
            THEN Done(fn, inp, env, NoDetails, <<>>, NoPayload, Raised(env.exc))
            ELSE IF env.stage = "remote"
            THEN Done(fn, inp, env, NoDetails, <<request>>, NoPayload, except[env.exc])
            ELSE IF env.stage = "iter"
            THEN Done(fn, inp, env, NoDetails,
                      <<request, Req("search_resources", scope \o <<"page2">>, NoPayload)>>,
                      NoPayload, except[env.exc])
            ELSE Done(fn, inp, env, NoDetails, <<request>>, NoPayload,
                      ReturnedList([i \in DOMAIN env.items |-> EntryDetails(env.items[i])]))

(***************************************************************************)
(* dataproc-agent: common_tools.py                                         *)
(***************************************************************************)
\* (cluster_client, job_client), or (None, None) when a constructor raises
initialize_clients(env) ==
    IF env.stage = "client" THEN <<"None", "None">> ELSE <<"client", "client">>

\* job_type.lower().replace('-', '_')
Cleaned(job_type) ==
    CASE job_type = "PySpark"   -> "pyspark"
      [] job_type = "Spark-SQL" -> "spark_sql"
      [] job_type = "invalid-job-type" -> "invalid_job_type"
      [] OTHER -> job_type

JobTypes == {"pyspark", "PySpark", "spark", "hive", "Spark-SQL", "invalid-job-type"}

supported_job_fields ==
    { "hadoop_job", "spark_job", "pyspark_job", "hive_job", "pig_job",
      "spark_r_job", "spark_sql_job", "presto_job", "trino_job" }

\* f"{job_type_cleaned}_job"
JobField(job_type) ==
    CASE Cleaned(job_type) = "pyspark"   -> "pyspark_job"
      [] Cleaned(job_type) = "spark"     -> "spark_job"
      [] Cleaned(job_type) = "hive"      -> "hive_job"
      [] Cleaned(job_type) = "spark_sql" -> "spark_sql_job"
      [] OTHER -> "invalid_job_type_job"

\* job_type.capitalize()
Capitalize(job_type) ==
    CASE job_type \in {"pyspark", "PySpark"} -> "Pyspark"
      [] job_type = "spark"     -> "Spark"
      [] job_type = "hive"      -> "Hive"
      [] job_type = "Spark-SQL" -> "Spark-sql"
      [] OTHER -> "Invalid-job-type"

\* job_details: not a dict, or a dict with at most one of the keys the checks
\* look for; query_list says whether job_details["query_list"] is non-empty.
JobDetails ==
    {[is_dict |-> FALSE, keys |-> {}, query_list |-> FALSE]}
    \cup {[is_dict |-> TRUE, keys |-> K, query_list |-> FALSE] :
            K \in {{}, {"main_python_file_uri"}, {"main_class"}, {"main_jar_file_uri"},
                   {"query_file_uri"}, {"query_list"}}}
    \cup {[is_dict |-> TRUE, keys |-> {"query_list"}, query_list |-> TRUE]}

SubmitInputs ==
    IF Fresh
    THEN {[ids |-> i, arg |-> NoDetails, repeat |-> FALSE,
           extra |-> [job_type |-> t, is_dict |-> d.is_dict, keys |-> d.keys,
                      query_list |-> d.query_list, update_mask |-> NoMask]] :
            i \in IdTuples({"project_id", "region", "cluster_name"}),
            t \in JobTypes, d \in JobDetails}
    ELSE {}

\* The checks submit_dataproc_job makes before its try body: the error message
\* of the first that fails, <<>> when they all pass.
submit_validation(job_type, job_details) ==
    LET job_type_field == JobField(job_type)
    IN  IF job_type_field \notin supported_job_fields
        THEN <<"Unsupported job_type: '", job_type, "'. Cleaned type '", job_type_field,
               "' is invalid. Supported types derive from: ",
               "hadoop, spark, pyspark, hive, pig, spark_r, spark_sql, presto, trino", ".">>
        ELSE IF ~job_details.is_dict
        THEN <<"job_details must be a dictionary, got ", "<class 'str'>", ".">>
        ELSE IF job_type_field = "pyspark_job"
                /\ "main_python_file_uri" \notin job_details.keys
        THEN <<"Missing required key 'main_python_file_uri' in job_details for pyspark job.">>
        ELSE IF job_type_field = "spark_job"
                /\ ~("main_class" \in job_details.keys
                     \/ "main_jar_file_uri" \in job_details.keys)
        THEN <<"Missing required key 'main_class' or 'main_jar_file_uri' in job_details for spark job.">>
        ELSE IF job_type_field \in {"hive_job", "pig_job", "spark_sql_job"}
                /\ ~("query_file_uri" \in job_details.keys
                     \/ ("query_list" \in job_details.keys /\ job_details.query_list))
        THEN <<"Missing required key 'query_file_uri' or non-empty 'query_list' in job_details for ",
               job_type, " job.">>
        ELSE <<>>

\* The first except clause names InvalidArgument, which common_tools.py never
\* imports: matching any exception against it raises NameError in its place.
submit_dataproc_job_except(ids, e) ==
    Raised(Exc("NameError", 0, <<"name 'InvalidArgument' is not defined">>))

SubmitEnvs ==
    {Env("build", BuildFailure), Env("ok", NoExc)} \cup {Env("remote", e) : e \in CoreErrors}

\* job_client is a module-level name that no statement of the module binds:
\* the test at the top of the function raises NameError.
submit_dataproc_job ==
    /\ pc = "idle"
    /\ \E inp \in SubmitInputs, env \in SubmitEnvs :
        LET ids == inp.ids
            fn == "submit_dataproc_job"
            job_id == <<"agent-job", "-", Cleaned(inp.extra.job_type), "-", "uuid">>
            invalid == submit_validation(inp.extra.job_type, inp.extra)
            request == Req("submit_job",
                           <<"projects", ids.project_id, "regions", ids.region,
                             "clusters", ids.cluster_name>> \o job_id,
                           NoPayload)
        IN  IF job_client = "unbound"
            THEN Done(fn, inp, env, NoDetails, <<>>, NoPayload,
                      Raised(Exc("NameError", 0, <<"name 'job_client' is not defined">>)))
            ELSE IF job_client = "None"
            THEN Done(fn, inp, env, NoDetails, <<>>, NoPayload,
                      ReturnedDict([error |-> <<"Dataproc job client not initialized.">>]))
            ELSE IF invalid # <<>>
            THEN Done(fn, inp, env, NoDetails, <<>>, NoPayload,
                      ReturnedDict([error |-> invalid]))
            ELSE IF env.stage = "build"
            THEN Done(fn, inp, env, NoDetails, <<>>, NoPayload,
                      submit_dataproc_job_except(ids, env.exc))
            ELSE IF env.stage = "remote"
            THEN Done(fn, inp, env, NoDetails, <<request>>, NoPayload,
                      submit_dataproc_job_except(ids, env.exc))
            ELSE Done(fn, inp, env, NoDetails, <<request>>, NoPayload,
                      ReturnedDict([message |-> <<Capitalize(inp.extra.job_type), " job '">>
                                                 \o job_id \o <<"' submitted successfully.">>,
                                    job_id |-> job_id,
                                    status |-> <<"PENDING">>,
                                    cluster_name |-> <<ids.cluster_name>>,
                                    submitted_job_type |-> <<JobField(inp.extra.job_type)>>]))

(***************************************************************************)
(* dataproc-agent: cluster_controller_tools.py                             *)
(***************************************************************************)
cluster_target(ids) ==
    <<"projects", ids.project_id, "regions", ids.region, "clusters", ids.cluster_name>>

\* A cancellation requested while the coroutine awaits its remote call is
\* thrown into it at the await.
Cancelled == Exc("CancelledError", 0, <<>>)

AsyncMutateEnvs ==
    {Env("client", ClientFailure), Env("build", BuildFailure), Env("ok", NoExc)}
    \cup {Env("remote", e) : e \in CoreErrors \cup {Cancelled}}

AsyncGetEnvs ==
    {Env("client", ClientFailure), Env("ok", NoExc)}
    \cup {Env("remote", e) : e \in CoreErrors \cup {Cancelled}}

\* The value an async cluster function returns for a started operation.
operation_details(status, op) ==
    [status |-> <<status>>, operation_name |-> op.name, metadata |-> <<"metadata">>]

StartedOperation ==
    [started |-> TRUE, name |-> <<"operations", "op1">>, description |-> <<>>,
     done |-> FALSE, failed |-> FALSE]

\* try body of an async cluster function that starts an operation.  The
\* request is a dict: it is converted, and may be refused, inside the call.
TryAsyncOperation(fn, inp, env, after, pl, method, target, status, except) ==
    IF env.stage \in {"client", "build"}
    THEN Done(fn, inp, env, after, <<>>, NoPayload, except[env.exc])
    ELSE IF env.stage = "remote"
    THEN Done(fn, inp, env, after, <<WithMask(Req(method, target, pl), inp.extra.update_mask)>>, pl, except[env.exc])
    ELSE Finish(fn, inp, env, after, <<WithMask(Req(method, target, pl), inp.extra.update_mask)>>, pl,
                ReturnedDict(operation_details(status, StartedOperation)), StartedOperation)

create_dataproc_cluster_async_except(ids, e) ==
    IF IsInstance(e, "GoogleAPICallError")
    THEN ReturnedDict([error |-> <<"API Error creating cluster async: ">> \o e.message])
    ELSE IF IsInstance(e, "Exception")
    THEN ReturnedDict([error |-> <<"Unexpected error creating cluster async: ">> \o Str(e)])
    ELSE Raised(e)

create_dataproc_cluster_async ==
    /\ pc = "idle"
    /\ \E inp \in ConfigInputs("create_dataproc_cluster_async",
                               {"project_id", "region", "cluster_name"}),
          env \in AsyncMutateEnvs :
        LET ids == inp.ids
            cluster_config == inp.arg.map
            cluster == [project_id |-> <<ids.project_id>>,
                        cluster_name |-> <<ids.cluster_name>>,
                        config |-> cluster_config]
            except == [e \in Exceptions |-> create_dataproc_cluster_async_except(ids, e)]
        IN  TryAsyncOperation("create_dataproc_cluster_async", inp, env, inp.arg,
                              Some(cluster), "create_cluster", cluster_target(ids),
                              "creating", except)

get_dataproc_cluster_async_except(ids, e) ==
    IF IsInstance(e, "NotFound")
    THEN ReturnedDict([error |-> <<"Cluster not found async: ", ids.cluster_name>>])
    ELSE IF IsInstance(e, "GoogleAPICallError")
    THEN ReturnedDict([error |-> <<"API Error getting cluster async: ">> \o e.message])
    ELSE IF IsInstance(e, "Exception")
    THEN ReturnedDict([error |-> <<"Unexpected error getting cluster async: ">> \o Str(e)])
    ELSE Raised(e)

get_dataproc_cluster_async ==
    /\ pc = "idle"
    /\ \E inp \in PlainInputs({"project_id", "region", "cluster_name"}), env \in AsyncGetEnvs :
        LET ids == inp.ids
            except == [e \in Exceptions |-> get_dataproc_cluster_async_except(ids, e)]
        IN  TryGet("get_dataproc_cluster_async", inp, env, "get_cluster",
                   cluster_target(ids), except)

list_dataproc_clusters_async_except(ids, e) ==
    IF IsInstance(e, "GoogleAPICallError")
    THEN ReturnedList(<<[error |-> <<"API Error listing clusters async: ">> \o e.message]>>)
    ELSE IF IsInstance(e, "Exception")
    THEN ReturnedList(<<[error |-> <<"Unexpected error listing clusters async: ">> \o Str(e)]>>)
    ELSE Raised(e)

RECURSIVE Times(_, _)
\* l + l + ... + l, n times
Times(l, n) == IF n = 0 THEN <<>> ELSE l \o Times(l, n - 1)

\* async for over the coroutine that list_clusters(request) returns when it
\* is not awaited
NotAsyncIterable ==
    Exc("TypeError", 0, <<"'async for' requires an object with __aiter__ method, got coroutine">>)

\* In stage "aiter" env.items is the listing the service holds, which the
\* function does not get to ask for.
AsyncListEnvs ==
    ListEnvs
    \cup {[Env("aiter", NotAsyncIterable) EXCEPT !.items = l] : l \in Listings}
    \cup {Env("remote", Cancelled)}

\* The outer loop runs once per cluster of the listing; each round awaits
\* list_clusters again and appends every cluster of that listing.  In stage
\* "iter" the listing of the first round raises.  Whether the outer
\* `async for` accepts what list_clusters returns un-awaited depends on the
\* client library: stage "aiter" is the case where it does not.
list_dataproc_clusters_async ==
    /\ pc = "idle"
    /\ \E inp \in PlainInputs({"project_id", "region"}), env \in AsyncListEnvs :
        LET ids == inp.ids
            fn == "list_dataproc_clusters_async"
            target == <<"projects", ids.project_id, "regions", ids.region>>
            request == Req("list_clusters", target, NoPayload)
            except == [e \in Exceptions |-> list_dataproc_clusters_async_except(ids, e)]
        IN  IF env.stage \in {"client", "aiter"}
            THEN Done(fn, inp, env, NoDetails, <<>>, NoPayload, except[env.exc])
            ELSE IF env.stage = "remote"
            THEN Done(fn, inp, env, NoDetails, <<request>>, NoPayload, except[env.exc])
            ELSE IF env.stage = "iter"
            THEN Done(fn, inp, env, NoDetails, <<request, request>>, NoPayload,
                      except[env.exc])
            ELSE Done(fn, inp, env, NoDetails,
                      <<request>> \o [i \in 1..Len(env.items) |-> request], NoPayload,
                      ReturnedList(Times(Converted(env.items), Len(env.items))))

update_dataproc_cluster_async_except(ids, e) ==
    IF IsInstance(e, "NotFound")
    THEN ReturnedDict([error |-> <<"Cluster not found for async update: ", ids.cluster_name>>])
    ELSE IF IsInstance(e, "GoogleAPICallError")
    THEN ReturnedDict([error |-> <<"API Error updating cluster async: ">> \o e.message])
    ELSE IF IsInstance(e, "Exception")
    THEN ReturnedDict([error |-> <<"Unexpected error updating cluster async: ">> \o Str(e)])
    ELSE Raised(e)

update_dataproc_cluster_async ==
    /\ pc = "idle"
    /\ \E inp \in UpdateInputs("update_dataproc_cluster_async",
                               {"project_id", "region", "cluster_name"}),
          env \in AsyncMutateEnvs :
        LET ids == inp.ids
            updated_cluster_config == inp.arg.map
            cluster_update_data == [config |-> updated_cluster_config]
            except == [e \in Exceptions |-> update_dataproc_cluster_async_except(ids, e)]
        IN  TryAsyncOperation("update_dataproc_cluster_async", inp, env, inp.arg,
                              Some(cluster_update_data), "update_cluster",
                              cluster_target(ids), "updating", except)

delete_dataproc_cluster_async_except(ids, e) ==
    IF IsInstance(e, "NotFound")
    THEN ReturnedDict([error |-> <<"Cluster not found for async deletion: ", ids.cluster_name>>])
    ELSE IF IsInstance(e, "GoogleAPICallError")
    THEN ReturnedDict([error |-> <<"API Error deleting cluster async: ">> \o e.message])
    ELSE IF IsInstance(e, "Exception")
    THEN ReturnedDict([error |-> <<"Unexpected error deleting cluster async: ">> \o Str(e)])
    ELSE Raised(e)

delete_dataproc_cluster_async ==
    /\ pc = "idle"
    /\ \E inp \in PlainInputs({"project_id", "region", "cluster_name"}), env \in AsyncGetEnvs :
        LET ids == inp.ids
            except == [e \in Exceptions |-> delete_dataproc_cluster_async_except(ids, e)]
        IN  TryAsyncOperation("delete_dataproc_cluster_async", inp, env, NoDetails,
                              NoPayload, "delete_cluster", cluster_target(ids),
                              "deleting", except)

list_dataproc_clusters_except(ids, e) ==
    IF IsInstance(e, "GoogleAPICallError")
    THEN ReturnedList(<<[error |-> <<"API Error listing clusters: ">> \o e.message]>>)
    ELSE IF IsInstance(e, "Exception")
    THEN ReturnedList(<<[error |-> <<"Unexpected error listing clusters: ">> \o Str(e)]>>)
    ELSE Raised(e)

list_dataproc_clusters ==
    /\ pc = "idle"
    /\ \E inp \in PlainInputs({"project_id", "region"}), env \in ListEnvs :
        LET ids == inp.ids
            fn == "list_dataproc_clusters"
            cluster_client == initialize_clients(env)[1]
            target == <<"projects", ids.project_id, "regions", ids.region>>
            except == [e \in Exceptions |-> list_dataproc_clusters_except(ids, e)]
        IN  IF cluster_client = "None"
            THEN Done(fn, inp, env, NoDetails, <<>>, NoPayload,
                      ReturnedList(<<[error |-> <<"Dataproc cluster client not initialized.">>]>>))
            ELSE TryList(fn, inp, env, "list_clusters", target, except)

(***************************************************************************)
(* _handle_lro: operation.exception() waits for the operation to finish,   *)
(* polling it, before it answers.                                          *)
(***************************************************************************)
\* The except clauses of the function whose try body called _handle_lro.
Except(fn, ids, e) ==
    CASE fn = "create_dataplex_lake"  -> create_dataplex_lake_except(ids, e)
      [] fn = "update_dataplex_lake"  -> update_dataplex_lake_except(ids, e)
      [] fn = "delete_dataplex_lake"  -> delete_dataplex_lake_except(ids, e)
      [] fn = "create_dataplex_zone"  -> create_dataplex_zone_except(ids, e)
      [] fn = "update_dataplex_zone"  -> update_dataplex_zone_except(ids, e)
      [] fn = "delete_dataplex_zone"  -> delete_dataplex_zone_except(ids, e)
      [] fn = "create_dataplex_asset" -> create_dataplex_asset_except(ids, e)
      [] fn = "update_dataplex_asset" -> update_dataplex_asset_except(ids, e)
      [] fn = "delete_dataplex_asset" -> delete_dataplex_asset_except(ids, e)
      [] fn = "create_dataplex_task"  -> create_dataplex_task_except(ids, e)
      [] fn = "update_dataplex_task"  -> update_dataplex_task_except(ids, e)
      [] fn = "delete_dataplex_task"  -> delete_dataplex_task_except(ids, e)

\* One more poll: the operation is found finished (in error or not) or still
\* running.
operation_exception_poll ==
    /\ pc = "lro"
    /\ ~operation.done
    /\ polls < MaxPolls
    /\ polls' = polls + 1
    /\ \E d \in BOOLEAN, f \in BOOLEAN :
        /\ f => d
        /\ operation' = [operation EXCEPT !.done = d, !.failed = f]
    /\ UNCHANGED <<pc, call, details, sent, payload, result, prev, job_client>>

\* The polling deadline passes first: operation.exception() raises
\* TimeoutError inside the caller's try body.
operation_exception_timeout ==
    /\ pc = "lro"
    /\ ~operation.done
    /\ polls >= 1
    /\ pc' = "idle"
    /\ result' = Except(call.fn, call.ids, PollingTimeout)
    /\ UNCHANGED <<call, details, sent, payload, operation, polls, prev, job_client>>

\* The operation has finished: _handle_lro returns.
handle_lro_return ==
    /\ pc = "lro"
    /\ operation.done
    /\ pc' = "idle"
    /\ result' = _handle_lro(operation, operation.description)
    /\ UNCHANGED <<call, details, sent, payload, operation, polls, prev, job_client>>

(***************************************************************************)
(* The caller                                                              *)
(***************************************************************************)
NoCall ==
    [fn |-> "none", ids |-> EmptyMap, before |-> NoDetails, repeat |-> FALSE,
     extra |-> NoExtra, env |-> NoEnv]

\* The agent has read the result and lets go of it and of the mapping.
forget ==
    /\ pc = "idle"
    /\ call.fn # "none"
    /\ call' = NoCall
    /\ details' = NoDetails
    /\ sent' = <<>>
    /\ payload' = NoPayload
    /\ result' = NoResult
    /\ operation' = NoOperation
    /\ polls' = 0
    /\ prev' = NoPayload
    /\ UNCHANGED <<pc, job_client>>

Init ==
    /\ pc = "idle"
    /\ call = NoCall
    /\ details = NoDetails
    /\ sent = <<>>
    /\ payload = NoPayload
    /\ result = NoResult
    /\ operation = NoOperation
    /\ polls = 0
    /\ prev = NoPayload
    /\ job_client = "unbound"

Next ==
    \/ create_dataplex_lake \/ get_dataplex_lake \/ list_dataplex_lakes
    \/ update_dataplex_lake \/ delete_dataplex_lake
    \/ create_dataplex_zone \/ get_dataplex_zone \/ list_dataplex_zones
    \/ update_dataplex_zone \/ delete_dataplex_zone
    \/ create_dataplex_asset \/ get_dataplex_asset \/ list_dataplex_assets
    \/ update_dataplex_asset \/ delete_dataplex_asset
    \/ create_dataplex_task \/ get_dataplex_task \/ list_dataplex_tasks
    \/ update_dataplex_task \/ delete_dataplex_task
    \/ run_dataplex_task \/ get_dataplex_job \/ list_dataplex_jobs \/ cancel_dataplex_job
    \/ search_dataplex_catalog
    \/ submit_dataproc_job
    \/ create_dataproc_cluster_async \/ get_dataproc_cluster_async
    \/ list_dataproc_clusters_async \/ update_dataproc_cluster_async
    \/ delete_dataproc_cluster_async \/ list_dataproc_clusters
    \/ operation_exception_poll \/ operation_exception_timeout \/ handle_lro_return
    \/ forget

Spec == Init /\ [][Next]_vars

(***************************************************************************)
(* Properties                                                              *)
(***************************************************************************)
LakeMutators == {"create_dataplex_lake", "update_dataplex_lake"}
ZoneMutators == {"create_dataplex_zone", "update_dataplex_zone"}
AssetMutators == {"create_dataplex_asset", "update_dataplex_asset"}
TaskMutators == {"create_dataplex_task", "update_dataplex_task"}
ClusterMutators == {"create_dataproc_cluster_async", "update_dataproc_cluster_async"}

DataplexOperations ==
    LakeMutators \cup ZoneMutators \cup AssetMutators \cup TaskMutators
    \cup {"delete_dataplex_lake", "delete_dataplex_zone", "delete_dataplex_asset",
          "delete_dataplex_task"}

\* The call is over.
Returned == pc = "idle" /\ result.how # "none"

\* {"error": ...} or a list holding such a dict
ErrorShaped(r) ==
    /\ r.how = "return"
    /\ \/ r.pytype = "dict" /\ "error" \in DOMAIN r.val
       \/ r.pytype = "list" /\ \E i \in DOMAIN r.val : "error" \in DOMAIN r.val[i]

\* The remote call of the latest call failed with NotFound.
RemoteNotFound ==
    /\ Returned
    /\ sent # <<>>
    /\ call.env.stage \in {"remote", "iter"}
    /\ call.env.exc.cls = "NotFound"

SomeIdEmpty == \E p \in DOMAIN call.ids : call.ids[p] = ""

\* `type` among the keys of m, of its resource_spec or of its trigger_spec
TypeAtTop(m) == "type" \in DOMAIN m
TypeIn(m, spec) == spec \in DOMAIN m /\ "type" \in DOMAIN m[spec]
TypeWithin(m) == TypeAtTop(m) \/ TypeIn(m, "resource_spec") \/ TypeIn(m, "trigger_spec")
TypeAnywhere(m) ==
    \/ TypeWithin(m)
    \/ "config" \in DOMAIN m /\ TypeWithin(m["config"])

\* C1: no tool function ever raises an exception to its caller.
C1_NeverRaises == result.how # "raise"

\* C2: when the remote call fails with NotFound, the call returns a failure
\* (an error-shaped value), never data, a pending status or an empty result.
C2_NotFoundIsFailure == RemoteNotFound => ErrorShaped(result)

\* C3: a create/update/delete call whose operation has started returns the one
\* Pending shape, {"status": "pending", "operation_name": <non-empty>, ...},
\* whatever the resource kind and the verb.
C3_StartedIsPending ==
    (pc = "idle" /\ operation.started) =>
        /\ result.how = "return"
        /\ result.pytype = "dict"
        /\ DOMAIN result.val = {"status", "operation_name", "metadata"}
        /\ result.val["status"] = <<"pending">>
        /\ result.val["operation_name"] # <<>>

\* C4: a Dataplex create/update/delete call never polls or waits for the
\* operation it has started.
C4_ReturnsWithoutPolling ==
    (operation.started /\ call.fn \in DataplexOperations) => polls = 0

AlreadyTerminal(job_id) ==
    ReturnedDict([error |-> <<"Job ", job_id, " is already in a terminal state.">>])

GenericInvalidArgument == Exc("InvalidArgument", 400, <<"bad", "field">>)

\* C5: cancel_dataplex_job answered with a terminal-job error returns the
\* already-terminal failure, which is not what it returns when answered with a
\* generic InvalidArgument; and a generic InvalidArgument is not reported as
\* already terminal.
C5_AlreadyTerminalDistinct ==
    (Returned /\ call.fn = "cancel_dataplex_job" /\ call.env.stage = "remote") =>
        /\ call.env.exc \in TerminalJobErrors =>
            /\ result = AlreadyTerminal(call.ids["job_id"])
            /\ result # cancel_dataplex_job_except(call.ids, GenericInvalidArgument)
        /\ call.env.exc = GenericInvalidArgument =>
            /\ ErrorShaped(result)
            /\ result # AlreadyTerminal(call.ids["job_id"])

C5_Witness ==
    /\ Returned
    /\ call.fn = "cancel_dataplex_job"
    /\ call.env.stage = "remote"
    /\ call.env.exc = Exc("FailedPrecondition", 400, <<"Job", "in", "Terminal", "State">>)
    /\ result = AlreadyTerminal("job_id")

C7_RenameIdempotent ==
    /\ (details.has /\ call.env.stage # "client") =>
        /\ call.fn \in ZoneMutators => rename_type(details.map) = details.map
        /\ call.fn \in AssetMutators =>
               rename_spec_type(details.map, "resource_spec") = details.map
        /\ call.fn \in TaskMutators =>
               rename_spec_type(details.map, "trigger_spec") = details.map
    /\ (call.repeat /\ prev.has /\ payload.has) => payload = prev

\* create_dataplex_zone called twice with one mapping that held `type`.
C7_Witness ==
    /\ call.fn = "create_dataplex_zone"
    /\ call.repeat
    /\ prev.has
    /\ payload.has
    /\ "type_" \in DOMAIN call.before.map
    /\ ~TypeAtTop(call.before.map)
    /\ payload.map["type_"] = <<"RAW">>

\* C8: create_dataplex_zone given a top-level `type` renames that key alone:
\* every other key, resource_spec included, keeps its value.
\* create_dataplex_asset given resource_spec.type renames that key alone: the
\* top-level keys, and the other keys of resource_spec, keep their values.
C8_RenameOnlyThatKey ==
    (payload.has /\ call.before.has) =>
        LET given == call.before.map
            kw == payload.map
        IN  /\ (call.fn = "create_dataplex_zone" /\ TypeAtTop(given)) =>
                /\ DOMAIN kw = (DOMAIN given \ {"type"}) \cup {"type_"}
                /\ kw["type_"] = given["type"]
                /\ \A k \in DOMAIN given \ {"type", "type_"} : kw[k] = given[k]
            /\ (call.fn = "create_dataplex_asset" /\ TypeIn(given, "resource_spec")) =>
                /\ DOMAIN kw = DOMAIN given
                /\ \A k \in DOMAIN given \ {"resource_spec"} : kw[k] = given[k]
                /\ DOMAIN kw["resource_spec"]
                     = (DOMAIN given["resource_spec"] \ {"type"}) \cup {"type_"}
                /\ kw["resource_spec"]["type_"] = given["resource_spec"]["type"]

\* A zone mapping with `type` at the top and inside resource_spec: only the
\* top-level one was renamed.
C8_Witness ==
    /\ payload.has
    /\ call.fn = "create_dataplex_zone"
    /\ ~call.repeat
    /\ TypeAtTop(call.before.map)
    /\ TypeIn(call.before.map, "resource_spec")
    /\ payload.map["type_"] = <<"RAW">>
    /\ payload.map["resource_spec"] = call.before.map["resource_spec"]

\* C9: a call given an empty identifying string sends no request and returns a
\* failure.
C9_EmptyIdRejected ==
    (Returned /\ SomeIdEmpty) => (sent = <<>> /\ ErrorShaped(result))

\* C10: when a create or update call is over, the caller's mapping is what it
\* was before the call.
C10_MappingUntouched ==
    (pc = "idle" /\ call.before.has) => details = call.before

UpdateFunctions ==
    {"update_dataplex_lake", "update_dataplex_zone", "update_dataplex_asset",
     "update_dataplex_task", "update_dataproc_cluster_async"}

\* The elements of a list
Elems(l) == {l[i] : i \in DOMAIN l}

\* The fields of the resource an update request carries, its name aside.
UpdatedFields ==
    IF call.fn = "update_dataproc_cluster_async"
    THEN DOMAIN payload.map["config"]
    ELSE DOMAIN payload.map \ {"name"}

\* C11: an update request that is sent carries a non-empty field mask, every
\* path of the mask is a field of the payload, and the payload has no field
\* beyond the masked ones and the resource name.
C11_MaskMatchesPayload ==
    (call.fn \in UpdateFunctions /\ sent # <<>>) =>
        /\ sent[1].update_mask.has
        /\ sent[1].update_mask.paths # <<>>
        /\ Elems(sent[1].update_mask.paths) = UpdatedFields

\* The sub-objects of which a task needs one.
TaskBodies == {"spark", "notebook", "sql_script"}

\* The latest call is a create call whose mapping lacks the sub-object its
\* resource kind requires.
LacksRequiredSubObject ==
    /\ call.before.has
    /\ \/ call.fn = "create_dataplex_asset" /\ "resource_spec" \notin DOMAIN call.before.map
       \/ call.fn = "create_dataplex_task" /\ TaskBodies \cap DOMAIN call.before.map = {}

\* C12: a create call that lacks the required sub-object sends no request and
\* returns the InvalidArgument failure.
C12_RequiredSubObject ==
    (LacksRequiredSubObject /\ call.env.stage # "client") =>
        /\ sent = <<>>
        /\ Returned => (ErrorShaped(result) /\ result.val["error"][1] = "Invalid argument: ")

\* The remote call of the latest call failed with the InvalidArgument error.
RemoteInvalidArgument ==
    /\ Returned
    /\ sent # <<>>
    /\ call.env.stage \in {"remote", "iter"}
    /\ call.env.exc = GenericInvalidArgument

\* The failure that create_dataplex_lake returns for InvalidArgument, alone or
\* as the one element of a list.
ClassifiedInvalidArgument(r) ==
    /\ ErrorShaped(r)
    /\ \/ r.pytype = "dict" /\ r.val["error"][1] = "Invalid argument: "
       \/ r.pytype = "list" /\ Len(r.val) = 1 /\ r.val[1]["error"][1] = "Invalid argument: "

\* C13: whatever the function, a remote InvalidArgument error is returned as
\* the InvalidArgument failure, not as the failure of any other API error.
C13_InvalidArgumentClassified ==
    RemoteInvalidArgument => ClassifiedInvalidArgument(result)

\* C14: within one invocation no request is issued twice.  (The pages of one
\* listing are different requests.)
C14_NoRequestTwice ==
    \A i, j \in DOMAIN sent : i # j => sent[i] # sent[j]

\* The service holds a listing of clusters that it would return.
ListingSucceeds ==
    /\ Returned
    /\ call.env.stage \in {"ok", "aiter"}

\* C15: list_dataproc_clusters_async returns one dictionary per cluster of
\* the remote listing, in listing order.
C15_OnePerCluster ==
    (call.fn = "list_dataproc_clusters_async" /\ ListingSucceeds) =>
        result = ReturnedList(Converted(call.env.items))

\* What list_dataproc_clusters returns when the collaborators behave as env.
list_dataproc_clusters_returns(ids, env) ==
    IF initialize_clients(env)[1] = "None"
    THEN ReturnedList(<<[error |-> <<"Dataproc cluster client not initialized.">>]>>)
    ELSE IF env.stage \in {"remote", "iter"}
    THEN list_dataproc_clusters_except(ids, env.exc)
    ELSE ReturnedList(Converted(env.items))

\* The remote behaviour of env as the blocking path meets it: a service that
\* holds a listing returns it.
Blocking(env) ==
    IF env.stage = "aiter" THEN [Env("ok", NoExc) EXCEPT !.items = env.items] ELSE env

\* Both are failures, or both are the same list of entries.
SameOutcome(r, q) ==
    IF ErrorShaped(r) \/ ErrorShaped(q)
    THEN ErrorShaped(r) /\ ErrorShaped(q)
    ELSE r = q

\* C16: for the same project, region and remote behaviour the non-blocking
\* listing returns what the blocking listing returns: a failure where it
\* returns a failure, the same entries where it returns entries.
C16_ListingPathsAgree ==
    /\ (Returned /\ call.fn = "list_dataproc_clusters") =>
           result = list_dataproc_clusters_returns(call.ids, call.env)
    /\ (Returned /\ call.fn = "list_dataproc_clusters_async" /\ call.env.exc # Cancelled) =>
           SameOutcome(result, list_dataproc_clusters_returns(call.ids, Blocking(call.env)))

AsyncFunctions ==
    {"create_dataproc_cluster_async", "get_dataproc_cluster_async",
     "list_dataproc_clusters_async", "update_dataproc_cluster_async",
     "delete_dataproc_cluster_async"}

\* The latest call was cancelled while it awaited its remote call.
CancelledMidCall ==
    /\ Returned
    /\ call.fn \in AsyncFunctions
    /\ call.env.stage = "remote"
    /\ call.env.exc = Cancelled

\* C17: a cancellation that arrives while an asynchronous cluster function
\* awaits its remote call leaves the function as the CancelledError itself.
C17_CancellationPropagates ==
    CancelledMidCall => result = Raised(Cancelled)

C17_Witness ==
    /\ CancelledMidCall
    /\ call.fn = "get_dataproc_cluster_async"
    /\ sent # <<>>
    /\ result.how = "raise"
    /\ result.val.cls = "CancelledError"

\* The values the module-level name job_client can hold when a tool runs:
\* unbound, as the module leaves it, or either value initialize_clients returns.
ModuleClients == {"unbound", "None", "client"}

\* What submit_dataproc_job hands to its caller when the module-level name
\* job_client holds client.
submit_dataproc_job_returns(ids, job_type, job_details, env, client) ==
    LET job_id == <<"agent-job", "-", Cleaned(job_type), "-", "uuid">>
        invalid == submit_validation(job_type, job_details)
    IN  IF client = "unbound"
        THEN Raised(Exc("NameError", 0, <<"name 'job_client' is not defined">>))
        ELSE IF client = "None"
        THEN ReturnedDict([error |-> <<"Dataproc job client not initialized.">>])
        ELSE IF invalid # <<>>
        THEN ReturnedDict([error |-> invalid])
        ELSE IF env.stage \in {"build", "remote"}
        THEN submit_dataproc_job_except(ids, env.exc)
        ELSE ReturnedDict([message |-> <<Capitalize(job_type), " job '">>
                                       \o job_id \o <<"' submitted successfully.">>,
                           job_id |-> job_id,
                           status |-> <<"PENDING">>,
                           cluster_name |-> <<ids.cluster_name>>,
                           submitted_job_type |-> <<JobField(job_type)>>])

\* C18: the result of a tool call depends only on the call's own arguments
\* and on the remote response to its own request: whatever a name shared by
\* all calls of the module holds, the result is the same.
C18_OnlyOwnArguments ==
    (Returned /\ call.fn = "submit_dataproc_job") =>
        \A client \in ModuleClients :
            result = submit_dataproc_job_returns(call.ids, call.extra.job_type, call.extra,
                                                 call.env, client)

ListFunctions ==
    {"list_dataplex_lakes", "list_dataplex_zones", "list_dataplex_assets",
     "list_dataplex_tasks", "list_dataplex_jobs", "list_dataproc_clusters",
     "list_dataproc_clusters_async"}

\* C19: every list function hands back a list in every outcome: a list of
\* resource dictionaries, or a list holding exactly one error dictionary.
C19_ListsReturnLists ==
    (Returned /\ call.fn \in ListFunctions) =>
        /\ result.how = "return"
        /\ result.pytype = "list"
        /\ ErrorShaped(result) => Len(result.val) = 1

\* C20: submit_dataproc_job validates job_type and job_details before any
\* remote call: when a check fails it returns the error dictionary of that
\* check and sends nothing.
C20_ValidatedBeforeSubmit ==
    (/\ Returned
     /\ call.fn = "submit_dataproc_job"
     /\ submit_validation(call.extra.job_type, call.extra) # <<>>) =>
        /\ result = ReturnedDict([error |-> submit_validation(call.extra.job_type, call.extra)])
        /\ sent = <<>>

\* C21: search_dataplex_catalog called with an empty project_id, location_id
\* or query raises ValueError, and nothing precedes it: no request is sent,
\* and a client constructor that would fail is never reached.
C21_EmptySearchArgumentRaises ==
    (Returned /\ call.fn = "search_dataplex_catalog" /\ SomeIdEmpty) =>
        /\ result = Raised(Exc("ValueError", 0,
                               <<"project_id, location_id, and query must be provided.">>))
        /\ sent = <<>>

C21_Witness ==
    /\ Returned
    /\ call.fn = "search_dataplex_catalog"
    /\ call.ids.query = ""
    /\ call.ids.project_id # ""
    /\ call.env.stage = "client"
    /\ result.how = "raise"
    /\ result.val.cls = "ValueError"
    /\ sent = <<>>

\* The remote search, or the iteration over its pages, failed.
SearchFailed ==
    /\ Returned
    /\ call.fn = "search_dataplex_catalog"
    /\ ~SomeIdEmpty
    /\ call.env.stage \in {"remote", "iter"}

C23_CancelReturnsEmpty ==
    (Returned /\ call.fn = "cancel_dataplex_job" /\ call.env.stage = "ok") =>
        /\ result.how = "return"
        /\ result.pytype = "dict"
        /\ DOMAIN result.val = {}

\* The text of the error names one of the two phrases, in any case.
HasTerminalPhrase(e) ==
    \/ Contains(Lower(Str(e)), <<"invalid", "state">>)
    \/ Contains(Lower(Str(e)), <<"terminal", "state">>)

\* The remote cancel request failed with an API error.
CancelApiError ==
    /\ Returned
    /\ call.fn = "cancel_dataplex_job"
    /\ call.env.stage = "remote"
    /\ IsInstance(call.env.exc, "GoogleAPICallError")

\* C24: cancel_dataplex_job reports the already-terminal failure exactly when
\* the API error has code 400 and its text holds "invalid state" or "terminal
\* state" in any case; every other API error yields the generic API-error
\* result, except NotFound, which always yields the job-not-found result.
C24_TerminalNeedsCodeAndPhrase ==
    CancelApiError =>
        LET e == call.env.exc
            job_id == call.ids["job_id"]
        IN  IF e.cls = "NotFound"
            THEN result = ReturnedDict([error |-> <<"Job not found for cancellation: ", job_id>>])
            ELSE IF e.code = 400 /\ HasTerminalPhrase(e)
            THEN result = AlreadyTerminal(job_id)
            ELSE /\ result = ReturnedDict([error |-> <<"API Error cancelling job: ">> \o e.message])
                 /\ result # AlreadyTerminal(job_id)

C24_Witness ==
    /\ CancelApiError
    /\ call.env.exc = Exc("Aborted", 409, <<"invalid", "state">>)
    /\ result = ReturnedDict([error |-> <<"API Error cancelling job: ", "invalid", "state">>])

\* The listing failed after it had yielded items.
ListingFailedMidway ==
    /\ Returned
    /\ call.fn \in ListFunctions
    /\ call.env.stage = "iter"
    /\ call.env.items # <<>>

\* The value is an error entry, alone or as the only element of a list.
OnlyErrorEntry(r) ==
    /\ r.how = "return"
    /\ \/ r.pytype = "dict" /\ "error" \in DOMAIN r.val
       \/ r.pytype = "list" /\ Len(r.val) = 1 /\ "error" \in DOMAIN r.val[1]

\* The value is a list that holds an error entry next to another entry.
MixedList(r) ==
    /\ r.how = "return"
    /\ r.pytype = "list"
    /\ Len(r.val) > 1
    /\ \E i \in DOMAIN r.val : "error" \in DOMAIN r.val[i]

MutatingCalls ==
    DataplexOperations \cup ClusterMutators
    \cup {"delete_dataproc_cluster_async", "run_dataplex_task", "cancel_dataplex_job"}

\* The operation handle given to _handle_lro reported an exception.
OperationReportedException ==
    /\ Returned
    /\ call.fn \in DataplexOperations
    /\ operation.started
    /\ operation.done
    /\ operation.failed

BothTypes(m) == "type" \in DOMAIN m /\ "type_" \in DOMAIN m

\* The rename step of the latest call has run on a mapping the caller had not
\* passed before.
RenameRan ==
    /\ call.before.has
    /\ details.has
    /\ ~call.repeat
    /\ call.env.stage # "client"

\* C27: when the configuration holds both `type` and `type_` at the renamed
\* position, the step leaves no `type` there and `type_` holds the value that
\* `type` had; the value `type_` had is gone.
C27_TypeWinsOverType_ ==
    RenameRan =>
        LET given == call.before.map
            after == details.map
        IN  /\ (call.fn \in ZoneMutators /\ BothTypes(given)) =>
                /\ "type" \notin DOMAIN after
                /\ after["type_"] = given["type"]
                /\ after["type_"] # given["type_"]
            /\ (/\ call.fn \in AssetMutators
                /\ "resource_spec" \in DOMAIN given
                /\ BothTypes(given["resource_spec"])) =>
                /\ "type" \notin DOMAIN after["resource_spec"]
                /\ after["resource_spec"]["type_"] = given["resource_spec"]["type"]
                /\ after["resource_spec"]["type_"] # given["resource_spec"]["type_"]
            /\ (/\ call.fn \in TaskMutators
                /\ "trigger_spec" \in DOMAIN given
                /\ BothTypes(given["trigger_spec"])) =>
                /\ "type" \notin DOMAIN after["trigger_spec"]
                /\ after["trigger_spec"]["type_"] = given["trigger_spec"]["type"]
                /\ after["trigger_spec"]["type_"] # given["trigger_spec"]["type_"]

C27_Witness ==
    /\ RenameRan
    /\ call.fn = "create_dataplex_task"
    /\ "trigger_spec" \in DOMAIN call.before.map
    /\ BothTypes(call.before.map["trigger_spec"])
    /\ call.before.map["trigger_spec"]["type_"] = <<"CURATED">>
    /\ details.map["trigger_spec"] = [type_ |-> <<"RAW">>]
    /\ payload.has

DataplexUpdates ==
    {"update_dataplex_lake", "update_dataplex_zone", "update_dataplex_asset",
     "update_dataplex_task"}

\* The resource name an update function derives from its identifying arguments.
UpdatedResource(fn, ids) ==
    CASE fn = "update_dataplex_lake" ->
            lake_path(ids.project_id, ids.location, ids.lake_id)
      [] fn = "update_dataplex_zone" ->
            zone_path(ids.project_id, ids.location, ids.lake_id, ids.zone_id)
      [] fn = "update_dataplex_asset" ->
            asset_path(ids.project_id, ids.location, ids.lake_id, ids.zone_id, ids.asset_id)
      [] fn = "update_dataplex_task" ->
            task_path(ids.project_id, ids.location, ids.lake_id, ids.task_id)

\* The caller's updated-details mapping holds a `name` of its own.
CallerSuppliedName ==
    /\ call.fn \in DataplexUpdates
    /\ call.before.has
    /\ "name" \in DOMAIN call.before.map

\* C28: an update request of a Dataplex update function names the resource
\* derived from the identifying arguments; when the caller's mapping holds a
\* `name` key the call returns an error result and sends no request.
C28_NameFromArguments ==
    /\ call.fn \in DataplexUpdates =>
            \A i \in DOMAIN sent :
                /\ sent[i].body.has
                /\ sent[i].body.map["name"] = UpdatedResource(call.fn, call.ids)
    /\ (Returned /\ CallerSuppliedName) => (ErrorShaped(result) /\ sent = <<>>)
    /\ CallerSuppliedName => sent = <<>>

C28_Witness ==
    /\ Returned
    /\ CallerSuppliedName
    /\ call.fn = "update_dataplex_zone"
    /\ call.env.stage = "ok"
    /\ call.before.map["name"] = <<"projects", "other">>
    /\ ErrorShaped(result)
    /\ sent = <<>>
====
